---- MODULE Spec2Model ----
(***************************************************************************)
(* Model of fink_client/consumer.py: the AlertConsumer facade, the         *)
(* configuration builder _get_kafka_config, the schema resolver            *)
(* _get_alert_schema and the record decoder _decode_avro_alert.            *)
(*                                                                         *)
(* Python dicts are functions whose domain is the set of keys present.     *)
(* File contents and HTTP bodies are strings; json.load followed by        *)
(* fastavro.parse_schema is the operator parse_schema below.  Avro bytes   *)
(* are records naming the writer schema and the encoded record.            *)
(***************************************************************************)
EXTENDS Integers, Sequences, FiniteSets, TLC

\* ------------------------------------------------------------------ bounds
MaxBatch == 2
MaxClose == 1

\* --------------------------------------------------------------- instances
Inst == {1, 2}

None == "None"

\* ------------------------------------------------------------ dict helpers
EmptyDict == [k \in {} |-> ""]

Put(d, k, v) == [x \in (DOMAIN d) \cup {k} |-> IF x = k THEN v ELSE d[x]]

\* ------------------------------------------------- configuration builder
OptionKeys == {"username", "password", "group_id", "bootstrap.servers"}

OptionValue(k) ==
  CASE k = "username" -> "alice"
    [] k = "password" -> "secret"
    [] k = "group_id" -> "g1"
    [] k = "bootstrap.servers" -> "broker:9092"

Configs == { [k \in ks |-> OptionValue(k)] : ks \in SUBSET OptionKeys }

fink_servers == "localhost:9093,localhost:9094,localhost:9095"

SaslKeys == {"security.protocol", "sasl.mechanism", "sasl.username", "sasl.password"}

HasCredentials(config) ==
  "username" \in DOMAIN config /\ "password" \in DOMAIN config

sasl_config_username_only(config) ==
  IF "username" \in DOMAIN config
  THEN Put(Put(Put(Put(EmptyDict,
         "security.protocol", "sasl_plaintext"),
         "sasl.mechanism", "SCRAM-SHA-512"),
         "sasl.username", config["username"]),
         "sasl.password", IF "password" \in DOMAIN config
                          THEN config["password"] ELSE "")
  ELSE EmptyDict

sasl_config(config) ==
  IF HasCredentials(config)
  THEN Put(Put(Put(Put(EmptyDict,
         "security.protocol", "sasl_plaintext"),
         "sasl.mechanism", "SCRAM-SHA-512"),
         "sasl.username", config["username"]),
         "sasl.password", config["password"])
  ELSE EmptyDict

bootstrap_servers(config) ==
  IF "bootstrap.servers" \in DOMAIN config
  THEN config["bootstrap.servers"]
  ELSE fink_servers

group_id_lookup_defaulted(config) ==
  IF "group_id" \in DOMAIN config
  THEN [exc |-> None, value |-> config["group_id"]]
  ELSE [exc |-> None, value |-> "default"]

\* config["group_id"] raises KeyError when the key is absent
group_id_lookup(config) ==
  IF "group_id" \in DOMAIN config
  THEN [exc |-> None, value |-> config["group_id"]]
  ELSE [exc |-> "KeyError", value |-> ""]

get_kafka_config(config) ==
  LET g == group_id_lookup(config) IN
  IF g.exc # None
  THEN [exc |-> g.exc, value |-> EmptyDict]
  ELSE [exc |-> None,
        value |-> Put(Put(Put(sasl_config(config),
                    "group.id", g.value),
                    "auto.offset.reset", "earliest"),
                    "bootstrap.servers", bootstrap_servers(config))]

\* ------------------------------------------------------- schema resolver
CachePath == "schemas/distribution_schema.avsc"
DefaultPath == "schemas/fink_alert_schema.avsc"
LocalPath == "local/my_schema.avsc"
BrokenPath == "local/broken.avsc"

SchemaPathArgs == {None, LocalPath, BrokenPath}

\* texts that json.load and fastavro.parse_schema accept
SchemaTexts == {"avsc_v0", "avsc_v1", "avsc_v2", "avsc_default", "avsc_local"}

ErrorBody == "404: Not Found"

ParsedName(text) ==
  CASE text = "avsc_v0" -> "schema_v0"
    [] text = "avsc_v1" -> "schema_v1"
    [] text = "avsc_v2" -> "schema_v2"
    [] text = "avsc_default" -> "schema_default"
    [] text = "avsc_local" -> "schema_local"

\* json.load(f) then fastavro.parse_schema(schema)
parse_schema(text) ==
  IF text \in SchemaTexts
  THEN [exc |-> None, schema |-> ParsedName(text)]
  ELSE [exc |-> "ValueError", schema |-> None]

\* the remote schema source, as requests.get(schema_url, timeout=1) sees it
RemoteStates ==
  { [status |-> "200", text |-> "avsc_v1"],
    [status |-> "200", text |-> "avsc_v2"],
    [status |-> "404", text |-> ErrorBody],
    [status |-> "timeout", text |-> ""],
    [status |-> "connection_error", text |-> ""] }

NoResponse == [kind |-> None, status |-> None, text |-> ""]

\* requests.get raises a RequestException subclass only when no response
\* arrives; a non-2xx response is returned like any other
requests_get(rem) ==
  IF rem.status \in {"timeout", "connection_error"}
  THEN [kind |-> "RequestException", status |-> rem.status, text |-> ""]
  ELSE [kind |-> "Response", status |-> rem.status, text |-> rem.text]

NeedsFetchAlways(path) == TRUE

\* if schema_path is None:
NeedsFetch(path) == path = None

WrittenTextNothing(resp) == ""

\* f.write(r.text)
WrittenText(resp) == resp.text

GettingNotice == [text |-> "Getting schema from fink servers...", path |-> None]

FallbackNotice(path) ==
  [text |-> "Could not obtain schema from fink servers. Using default schema available at:",
   path |-> path]

\* ---------------------------------------------------------- record decoder
Truncated == [writer |-> None, rec |-> None]

Payloads ==
  { [writer |-> "schema_v1", rec |-> "alert_a"],
    Truncated }

\* avro_alert.seek(0); fastavro.schemaless_reader(avro_alert, schema)
decode_avro_alert(avro_alert, schema) ==
  IF avro_alert.writer = schema /\ schema # None
  THEN [exc |-> None, record |-> avro_alert.rec]
  ELSE [exc |-> "DecodeError", record |-> None]

\* -------------------------------------------------------- broker messages
Topic == "alerts"

Msgs ==
  { [topic |-> Topic, error |-> None, value |-> p] : p \in Payloads }
  \cup
  { [topic |-> Topic, error |-> "KafkaError",
     value |-> [writer |-> "schema_v1", rec |-> "alert_a"]] }

AllBatches == UNION { [1..n -> Msgs] : n \in 0..MaxBatch }

Polled == {<<>>} \cup { <<m>> : m \in Msgs }

\* one call of msg.value() followed by _decode_avro_alert(..., schema)
Decoding(msg, schema) == [msg |-> msg, schema |-> schema]

NoOp == [op |-> None, batch |-> <<>>, decoded |-> <<>>, exc |-> None, result |-> <<>>]

\* --------------------------------------------------------- AlertConsumer
poll_result_decode_first(polled, schema) ==
  IF polled = <<>>
  THEN [op |-> "poll", batch |-> polled, decoded |-> <<>>, exc |-> None,
        result |-> << <<None, None>> >>]
  ELSE LET msg == polled[1]
           d == decode_avro_alert(msg.value, schema)
       IN IF d.exc # None
          THEN [op |-> "poll", batch |-> polled,
                decoded |-> <<Decoding(msg, schema)>>, exc |-> d.exc,
                result |-> <<>>]
          ELSE IF msg.error # None
          THEN [op |-> "poll", batch |-> polled,
                decoded |-> <<Decoding(msg, schema)>>, exc |-> "AlertError",
                result |-> <<>>]
          ELSE [op |-> "poll", batch |-> polled,
                decoded |-> <<Decoding(msg, schema)>>, exc |-> None,
                result |-> << <<msg.topic, d.record>> >>]

\* AlertConsumer.poll after self._consumer.poll(timeout) returned `polled`
poll_result(polled, schema) ==
  IF polled = <<>>
  THEN [op |-> "poll", batch |-> polled, decoded |-> <<>>, exc |-> None,
        result |-> << <<None, None>> >>]
  ELSE LET msg == polled[1] IN
       IF msg.error # None
       THEN [op |-> "poll", batch |-> polled, decoded |-> <<>>,
             exc |-> "AlertError", result |-> <<>>]
       ELSE LET d == decode_avro_alert(msg.value, schema) IN
            IF d.exc # None
            THEN [op |-> "poll", batch |-> polled,
                  decoded |-> <<Decoding(msg, schema)>>, exc |-> d.exc,
                  result |-> <<>>]
            ELSE [op |-> "poll", batch |-> polled,
                  decoded |-> <<Decoding(msg, schema)>>, exc |-> None,
                  result |-> << <<msg.topic, d.record>> >>]

\* the for loop of AlertConsumer.consume from message k on
RECURSIVE consume_loop(_, _, _, _, _)
consume_loop(msg_list, schema, k, decoded, alerts) ==
  IF k > Len(msg_list)
  THEN [op |-> "consume", batch |-> msg_list, decoded |-> decoded,
        exc |-> None, result |-> alerts]
  ELSE LET msg == msg_list[k]
           d == decode_avro_alert(msg.value, schema)
           log == Append(decoded, Decoding(msg, schema))
       IN IF d.exc # None
          THEN [op |-> "consume", batch |-> msg_list, decoded |-> log,
                exc |-> d.exc, result |-> <<>>]
          ELSE consume_loop(msg_list, schema, k + 1, log,
                            Append(alerts, <<msg.topic, d.record>>))

RECURSIVE consume_loop_checking(_, _, _, _, _)
consume_loop_checking(msg_list, schema, k, decoded, alerts) ==
  IF k > Len(msg_list)
  THEN [op |-> "consume", batch |-> msg_list, decoded |-> decoded,
        exc |-> None, result |-> alerts]
  ELSE LET msg == msg_list[k] IN
       IF msg.error # None
       THEN [op |-> "consume", batch |-> msg_list, decoded |-> decoded,
             exc |-> "AlertError", result |-> <<>>]
       ELSE LET d == decode_avro_alert(msg.value, schema)
                log == Append(decoded, Decoding(msg, schema))
            IN IF d.exc # None
               THEN [op |-> "consume", batch |-> msg_list, decoded |-> log,
                     exc |-> d.exc, result |-> <<>>]
               ELSE consume_loop_checking(msg_list, schema, k + 1, log,
                            Append(alerts, <<msg.topic, d.record>>))

consume_result_checking(msg_list, schema) ==
  consume_loop_checking(msg_list, schema, 1, <<>>, <<>>)

\* AlertConsumer.consume after self._consumer.consume(...) returned msg_list
consume_result(msg_list, schema) ==
  consume_loop(msg_list, schema, 1, <<>>, <<>>)

\* ------------------------------------------------------------------ state
VARIABLES
  remote,         \* what the schema URL currently answers
  fs,             \* file contents by path
  pc,             \* position of each instance in its lifetime
  config,         \* the config argument of __init__
  schema,         \* the schema argument of __init__
  schema_path,    \* the schema_path local of _get_alert_schema
  r,              \* the response local of _get_alert_schema
  loaded,         \* the text handed to json.load
  printed,        \* what _get_alert_schema printed
  net_calls,      \* number of requests.get calls made
  kafka_config,   \* self._kafka_config
  parsed_schema,  \* self._parsed_schema
  consumer,       \* self._consumer, the broker client
  raised,         \* exception that left __init__
  block,          \* position relative to a with block
  last            \* the most recent poll or consume call

vars == <<remote, fs, pc, config, schema, schema_path, r, loaded, printed, net_calls,
          kafka_config, parsed_schema, consumer, raised, block, last>>

NoConsumer == [created |-> FALSE, config |-> EmptyDict, subscribed |-> <<>>,
               close_calls |-> 0]

Init ==
  /\ remote \in RemoteStates
  /\ fs \in { [p \in {CachePath, DefaultPath, LocalPath, BrokenPath} |->
                 CASE p = CachePath -> c
                   [] p = DefaultPath -> "avsc_default"
                   [] p = LocalPath -> "avsc_local"
                   [] p = BrokenPath -> "{broken"] : c \in {"avsc_v0"} }
  /\ pc = [i \in Inst |-> "new"]
  /\ config = [i \in Inst |-> EmptyDict]
  /\ schema = [i \in Inst |-> None]
  /\ schema_path = [i \in Inst |-> None]
  /\ r = [i \in Inst |-> NoResponse]
  /\ loaded = [i \in Inst |-> None]
  /\ printed = [i \in Inst |-> <<>>]
  /\ net_calls = [i \in Inst |-> 0]
  /\ kafka_config = [i \in Inst |-> EmptyDict]
  /\ parsed_schema = [i \in Inst |-> None]
  /\ consumer = [i \in Inst |-> NoConsumer]
  /\ raised = [i \in Inst |-> None]
  /\ block = [i \in Inst |-> "outside"]
  /\ last = [i \in Inst |-> NoOp]

\* the remote schema source changes or becomes (un)reachable
RemoteChange ==
  /\ \E rem \in RemoteStates \ {remote} : remote' = rem
  /\ UNCHANGED <<fs, pc, config, schema, schema_path, r, loaded, printed, net_calls,
                 kafka_config, parsed_schema, consumer, raised, block, last>>

\* __init__ up to the first statement of _get_alert_schema
Construct(i, cfg, path) ==
  /\ pc[i] = "new"
  /\ config' = [config EXCEPT ![i] = cfg]
  /\ schema' = [schema EXCEPT ![i] = path]
  /\ LET kc == get_kafka_config(cfg) IN
     IF kc.exc # None
     THEN /\ pc' = [pc EXCEPT ![i] = "failed"]
          /\ raised' = [raised EXCEPT ![i] = kc.exc]
          /\ UNCHANGED <<kafka_config, schema_path>>
     ELSE /\ kafka_config' = [kafka_config EXCEPT ![i] = kc.value]
          /\ schema_path' = [schema_path EXCEPT ![i] = path]
          /\ pc' = [pc EXCEPT ![i] = IF NeedsFetch(path) THEN "fetch" ELSE "load"]
          /\ UNCHANGED raised
  /\ UNCHANGED <<remote, fs, r, loaded, printed, net_calls, parsed_schema,
                 consumer, block, last>>

\* print(...); r = requests.get(schema_url, timeout=1), and the except branch
Fetch(i) ==
  /\ pc[i] = "fetch"
  /\ net_calls' = [net_calls EXCEPT ![i] = @ + 1]
  /\ LET resp == requests_get(remote) IN
     /\ r' = [r EXCEPT ![i] = resp]
     /\ IF resp.kind = "RequestException"
        THEN /\ schema_path' = [schema_path EXCEPT ![i] = DefaultPath]
             /\ printed' = [printed EXCEPT ![i] =
                   Append(Append(@, GettingNotice), FallbackNotice(DefaultPath))]
             /\ pc' = [pc EXCEPT ![i] = "load"]
        ELSE /\ schema_path' = [schema_path EXCEPT ![i] = CachePath]
             /\ printed' = [printed EXCEPT ![i] = Append(@, GettingNotice)]
             /\ pc' = [pc EXCEPT ![i] = "open_w"]
  /\ UNCHANGED <<remote, fs, config, schema, loaded, kafka_config, parsed_schema,
                 consumer, raised, block, last>>

\* open(schema_path, "w") truncates the file
OpenW(i) ==
  /\ pc[i] = "open_w"
  /\ fs' = [fs EXCEPT ![schema_path[i]] = ""]
  /\ pc' = [pc EXCEPT ![i] = "write"]
  /\ UNCHANGED <<remote, config, schema, schema_path, r, loaded, printed, net_calls,
                 kafka_config, parsed_schema, consumer, raised, block, last>>

\* f.write(r.text), flushed when the with statement closes the file
Write(i) ==
  /\ pc[i] = "write"
  /\ fs' = [fs EXCEPT ![schema_path[i]] = WrittenText(r[i])]
  /\ pc' = [pc EXCEPT ![i] = "load"]
  /\ UNCHANGED <<remote, config, schema, schema_path, r, loaded, printed, net_calls,
                 kafka_config, parsed_schema, consumer, raised, block, last>>

\* open(schema_path), json.load, fastavro.parse_schema
Load(i) ==
  /\ pc[i] = "load"
  /\ loaded' = [loaded EXCEPT ![i] = fs[schema_path[i]]]
  /\ LET p == parse_schema(fs[schema_path[i]]) IN
     IF p.exc # None
     THEN /\ pc' = [pc EXCEPT ![i] = "failed"]
          /\ raised' = [raised EXCEPT ![i] = p.exc]
          /\ UNCHANGED parsed_schema
     ELSE /\ pc' = [pc EXCEPT ![i] = "connect"]
          /\ parsed_schema' = [parsed_schema EXCEPT ![i] = p.schema]
          /\ UNCHANGED raised
  /\ UNCHANGED <<remote, fs, config, schema, schema_path, r, printed, net_calls,
                 kafka_config, consumer, block, last>>

\* confluent_kafka.Consumer(self._kafka_config); subscribe(self._topics)
Connect(i) ==
  /\ pc[i] = "connect"
  /\ consumer' = [consumer EXCEPT ![i] =
        [created |-> TRUE, config |-> kafka_config[i],
         subscribed |-> <<Topic>>, close_calls |-> 0]]
  /\ pc' = [pc EXCEPT ![i] = "ready"]
  /\ UNCHANGED <<remote, fs, config, schema, schema_path, r, loaded, printed, net_calls,
                 kafka_config, parsed_schema, raised, block, last>>

decode_schema_reloaded(i) == parse_schema(fs[CachePath]).schema

\* self._parsed_schema, as poll and consume pass it to the decoder
decode_schema(i) == parsed_schema[i]

exit_close_calls_on_success_only(n, err) == IF err THEN n ELSE n + 1

\* __exit__(type, value, traceback): self._consumer.close(), whatever the arguments
exit_close_calls(n, err) == n + 1

BrokerClosed(i) ==
  [op |-> None, batch |-> <<>>, decoded |-> <<>>, exc |-> "RuntimeError",
   result |-> <<>>]

\* with AlertConsumer(...) as consumer:
Enter(i) ==
  /\ pc[i] = "ready"
  /\ block[i] = "outside"
  /\ block' = [block EXCEPT ![i] = "inside"]
  /\ UNCHANGED <<remote, fs, pc, config, schema, schema_path, r, loaded, printed,
                 net_calls, kafka_config, parsed_schema, consumer, raised, last>>

\* leaving the with block, normally or with an error raised inside it
Exit(i, err) ==
  /\ pc[i] = "ready"
  /\ block[i] = "inside"
  /\ block' = [block EXCEPT ![i] = IF err THEN "exited_by_error" ELSE "exited"]
  /\ consumer' = [consumer EXCEPT ![i].close_calls = exit_close_calls(@, err)]
  /\ UNCHANGED <<remote, fs, pc, config, schema, schema_path, r, loaded, printed,
                 net_calls, kafka_config, parsed_schema, raised, last>>

\* AlertConsumer.poll; a closed broker client raises RuntimeError
Poll(i, polled) ==
  /\ pc[i] = "ready"
  /\ last' = [last EXCEPT ![i] =
       IF consumer[i].close_calls > 0
       THEN [BrokerClosed(i) EXCEPT !.op = "poll"]
       ELSE poll_result(polled, decode_schema(i))]
  /\ UNCHANGED <<remote, fs, pc, config, schema, schema_path, r, loaded, printed,
                 net_calls, kafka_config, parsed_schema, consumer, raised, block>>

\* AlertConsumer.consume; a closed broker client raises RuntimeError
Consume(i, msg_list) ==
  /\ pc[i] = "ready"
  /\ last' = [last EXCEPT ![i] =
       IF consumer[i].close_calls > 0
       THEN [BrokerClosed(i) EXCEPT !.op = "consume"]
       ELSE consume_result(msg_list, decode_schema(i))]
  /\ UNCHANGED <<remote, fs, pc, config, schema, schema_path, r, loaded, printed,
                 net_calls, kafka_config, parsed_schema, consumer, raised, block>>

\* AlertConsumer.close
Close(i) ==
  /\ pc[i] = "ready"
  /\ consumer[i].close_calls < MaxClose
  /\ consumer' = [consumer EXCEPT ![i].close_calls = @ + 1]
  /\ UNCHANGED <<remote, fs, pc, config, schema, schema_path, r, loaded, printed,
                 net_calls, kafka_config, parsed_schema, raised, block, last>>

\* another process rewrites the cache file while no constructor is running
CacheChange ==
  /\ \A i \in Inst : pc[i] \in {"new", "ready", "failed"}
  /\ \E text \in {"avsc_v0"} \ {fs[CachePath]} :
       fs' = [fs EXCEPT ![CachePath] = text]
  /\ UNCHANGED <<remote, pc, config, schema, schema_path, r, loaded, printed, net_calls,
                 kafka_config, parsed_schema, consumer, raised, block, last>>

\* ---------------------------------------------------------- specifications
\* one consumer instance in the process, through its whole lifetime
Single == {1}

Next ==
  \/ RemoteChange
  \/ CacheChange
  \/ \E i \in Single :
       \/ \E cfg \in Configs, path \in SchemaPathArgs : Construct(i, cfg, path)
       \/ Fetch(i)
       \/ OpenW(i)
       \/ Write(i)
       \/ Load(i)
       \/ Connect(i)
       \/ Enter(i)
       \/ \E err \in BOOLEAN : Exit(i, err)
       \/ \E polled \in Polled : Poll(i, polled)
       \/ \E msg_list \in AllBatches : Consume(i, msg_list)
       \/ Close(i)

Spec == Init /\ [][Next]_vars

\* two instances constructed concurrently in one process
NextConcurrent ==
  \/ RemoteChange
  \/ \E i \in Inst :
       \/ \E cfg \in Configs, path \in SchemaPathArgs : Construct(i, cfg, path)
       \/ Fetch(i)
       \/ OpenW(i)
       \/ Write(i)
       \/ Load(i)
       \/ Connect(i)

SpecConcurrent == Init /\ [][NextConcurrent]_vars

\* ------------------------------------------------------------- properties
Resolved(i) == pc[i] \in {"connect", "ready"}

ResolutionOver(i) == Resolved(i) \/ (pc[i] = "failed" /\ raised[i] # "KeyError")

DecodedMsgs(op) == [k \in 1..Len(op.decoded) |-> op.decoded[k].msg]

IsPrefix(s, t) == Len(s) <= Len(t) /\ \A k \in 1..Len(s) : s[k] = t[k]

\* C1: with no explicit schema path, any failure of the remote fetch
\* (timeout, non-2xx response, connection error) makes the resolver fall
\* back: it does not raise, it prints the notice naming the default schema
\* file, and the text it parses is the default schema file's content.
C1_FetchFailureFallsBack ==
  \A i \in Inst :
    ( /\ ResolutionOver(i)
      /\ schema[i] = None
      /\ (r[i].kind = "RequestException" \/ r[i].status # "200") )
    => /\ raised[i] = None
       /\ \E k \in 1..Len(printed[i]) : printed[i][k] = FallbackNotice(DefaultPath)
       /\ loaded[i] = fs[DefaultPath]
       /\ parsed_schema[i] = parse_schema(fs[DefaultPath]).schema

\* C2: when the message returned by the broker client carries an error,
\* poll raises AlertError, reads no value, invokes no decoder and returns
\* no (topic, record) pair.
C2_PollErrorRaisesBeforeDecode ==
  \A i \in Inst :
    ( /\ last[i].op = "poll"
      /\ last[i].batch # <<>>
      /\ last[i].batch[1].error # None )
    => /\ last[i].exc = "AlertError"
       /\ last[i].decoded = <<>>
       /\ last[i].result = <<>>

C2_Witness ==
  \E i \in Inst :
    /\ last[i].op = "poll"
    /\ last[i].batch # <<>>
    /\ last[i].batch[1].error # None
    /\ last[i].batch[1].value.writer = parsed_schema[i]
    /\ last[i].exc = "AlertError"

\* C3: for every option set with group_id, the built configuration has
\* group.id equal to the given group_id and auto.offset.reset "earliest",
\* and holds the four SASL fields exactly when username and password are
\* both present.
C3_ConfigContract ==
  \A i \in Inst :
    (pc[i] # "new" /\ "group_id" \in DOMAIN config[i])
    => /\ "group.id" \in DOMAIN kafka_config[i]
       /\ kafka_config[i]["group.id"] = config[i]["group_id"]
       /\ "auto.offset.reset" \in DOMAIN kafka_config[i]
       /\ kafka_config[i]["auto.offset.reset"] = "earliest"
       /\ IF HasCredentials(config[i])
          THEN /\ SaslKeys \subseteq DOMAIN kafka_config[i]
               /\ kafka_config[i]["security.protocol"] = "sasl_plaintext"
               /\ kafka_config[i]["sasl.mechanism"] = "SCRAM-SHA-512"
               /\ kafka_config[i]["sasl.username"] = config[i]["username"]
               /\ kafka_config[i]["sasl.password"] = config[i]["password"]
          ELSE SaslKeys \cap DOMAIN kafka_config[i] = {}

C3_Witness ==
  \E i \in Inst :
    /\ pc[i] = "ready"
    /\ DOMAIN config[i] = {"group_id", "username"}
    /\ SaslKeys \cap DOMAIN consumer[i].config = {}
    /\ consumer[i].config["group.id"] = "g1"

\* C4: resolution with an explicit path P makes no network call and parses
\* the content of P, whatever the remote source or the cache file holds.
C4_ExplicitPathNoNetwork ==
  \A i \in Inst :
    (pc[i] # "new" /\ schema[i] # None)
    => /\ net_calls[i] = 0
       /\ r[i] = NoResponse
       /\ schema_path[i] \in {None, schema[i]}
       /\ ResolutionOver(i) =>
            /\ loaded[i] = fs[schema[i]]
            /\ Resolved(i) => parsed_schema[i] = parse_schema(fs[schema[i]]).schema

C4_Witness ==
  \E i \in Inst :
    /\ pc[i] = "ready"
    /\ schema[i] = LocalPath
    /\ parsed_schema[i] = "schema_local"
    /\ remote.status = "200"
    /\ fs[CachePath] # fs[LocalPath]

\* C5: after construction, no poll, consume, close or block exit resolves,
\* re-reads or replaces the schema, and every decode of such a call uses the
\* schema resolved at construction, even when the remote source or the cache
\* file changed in between.
C5_SchemaFixedAfterConstruction ==
  /\ [](\A i \in Inst : pc[i] = "ready" =>
          \A k \in 1..Len(last[i].decoded) :
            last[i].decoded[k].schema = parsed_schema[i])
  /\ [][\A i \in Inst : pc[i] = "ready" =>
          /\ parsed_schema'[i] = parsed_schema[i]
          /\ loaded'[i] = loaded[i]
          /\ net_calls'[i] = net_calls[i]
          /\ schema_path'[i] = schema_path[i]]_vars

C5_Witness ==
  \E i \in Inst :
    /\ pc[i] = "ready"
    /\ schema[i] = None
    /\ r[i].kind = "Response"
    /\ last[i].decoded # <<>>
    /\ last[i].decoded[1].schema = parse_schema(r[i].text).schema
    /\ remote.text # r[i].text
    /\ fs[CachePath] # r[i].text

\* C6 as stated: consume never raises AlertError and hands every message of
\* the batch returned by the broker client to the decoder.
C6_ConsumeDecodesWholeBatch ==
  \A i \in Inst :
    (last[i].op = "consume" /\ last[i].exc # "RuntimeError")
    => /\ last[i].exc # "AlertError"
       /\ DecodedMsgs(last[i]) = last[i].batch

\* C6 amended: consume never raises AlertError; it hands the messages of the
\* batch to the decoder in order, whatever their error(), up to and including
\* the first one whose decoding raises, and all of them when none raises.
C6_ConsumeIgnoresMessageErrors ==
  \A i \in Inst :
    (last[i].op = "consume" /\ last[i].exc # "RuntimeError")
    => /\ last[i].exc \in {None, "DecodeError"}
       /\ IsPrefix(DecodedMsgs(last[i]), last[i].batch)
       /\ last[i].exc = None =>
            /\ DecodedMsgs(last[i]) = last[i].batch
            /\ Len(last[i].result) = Len(last[i].batch)
       /\ last[i].exc = "DecodeError" =>
            /\ last[i].decoded # <<>>
            /\ LET d == last[i].decoded[Len(last[i].decoded)]
               IN decode_avro_alert(d.msg.value, d.schema).exc = "DecodeError"
            /\ \A k \in 1..(Len(last[i].decoded) - 1) :
                 decode_avro_alert(last[i].decoded[k].msg.value,
                                   last[i].decoded[k].schema).exc = None

C6_Witness ==
  \E i \in Inst :
    /\ last[i].op = "consume"
    /\ Len(last[i].batch) = 2
    /\ last[i].batch[1].error # None
    /\ last[i].exc = None
    /\ Len(last[i].result) = 2

\* C7: every exit from a with block, normal or by an error raised inside it,
\* calls the broker client's close once more, also when close() was already
\* called explicitly inside the block.
C7_ExitAlwaysCloses ==
  [][\A i \in Inst :
       (block[i] = "inside" /\ block'[i] # "inside")
       => /\ block'[i] \in {"exited", "exited_by_error"}
          /\ consumer'[i].close_calls = consumer[i].close_calls + 1]_vars

C7_Witness ==
  \E i \in Inst :
    /\ block[i] = "exited_by_error"
    /\ last[i].exc = "AlertError"
    /\ consumer[i].close_calls > MaxClose

\* C8: with no explicit path and a successful fetch, a single instance
\* leaves the fetched text in the cache file and parses exactly that text.
C8_FetchedTextPersistedAndParsed ==
  \A i \in Inst :
    (schema[i] = None /\ r[i].kind = "Response" /\ r[i].status = "200")
    => /\ pc[i] \in {"load", "connect"} => fs[CachePath] = r[i].text
       /\ ResolutionOver(i) =>
            /\ schema_path[i] = CachePath
            /\ loaded[i] = r[i].text
            /\ Resolved(i)
            /\ parsed_schema[i] = parse_schema(r[i].text).schema

C8_Witness ==
  \E i \in Inst :
    /\ pc[i] = "connect"
    /\ schema[i] = None
    /\ r[i].status = "200"
    /\ r[i].text = "avsc_v1"
    /\ fs[CachePath] = "avsc_v1"
    /\ parsed_schema[i] = "schema_v1"

\* C9: the cache file is written and re-read without locking, so with two
\* instances resolving concurrently an instance may parse text it did not
\* fetch; this happens only after the other instance has truncated or
\* rewritten the file, and the text read is then the empty truncated file or
\* the other instance's text.
C9_OnlyAnotherWriterChangesWhatIsRead ==
  \A i \in Inst :
    ( /\ ResolutionOver(i)
      /\ schema[i] = None
      /\ r[i].kind = "Response"
      /\ loaded[i] # r[i].text )
    => \E j \in Inst \ {i} :
         /\ schema[j] = None
         /\ r[j].kind = "Response"
         /\ pc[j] \in {"write", "load", "connect", "ready", "failed"}
         /\ loaded[i] \in {"", r[j].text}

C9_Witness ==
  \E i \in Inst :
    /\ pc[i] = "ready"
    /\ schema[i] = None
    /\ r[i].kind = "Response"
    /\ r[i].text = "avsc_v1"
    /\ loaded[i] = "avsc_v2"
    /\ parsed_schema[i] = "schema_v2"

\* C10: construction without group_id fails with KeyError before any later
\* step: no fetch, no notice, no file read or written, no broker client
\* created, no topic subscribed, and no group.id put in a configuration.
C10_MissingGroupIdFailsFast ==
  /\ [](\A i \in Inst :
          (pc[i] # "new" /\ "group_id" \notin DOMAIN config[i])
          => /\ pc[i] = "failed"
             /\ raised[i] = "KeyError"
             /\ net_calls[i] = 0
             /\ r[i] = NoResponse
             /\ printed[i] = <<>>
             /\ loaded[i] = None
             /\ parsed_schema[i] = None
             /\ kafka_config[i] = EmptyDict
             /\ consumer[i] = NoConsumer)
  /\ [][\A i \in Inst :
          (pc[i] = "new" /\ pc'[i] # "new" /\ "group_id" \notin DOMAIN config'[i])
          => fs' = fs]_vars

C10_Witness ==
  \E i \in Inst :
    /\ pc[i] = "failed"
    /\ raised[i] = "KeyError"
    /\ DOMAIN config[i] = {"username", "password", "bootstrap.servers"}

====
